---- MODULE Spec2Model ----
(***************************************************************************)
(* Model of the central server of the distributed file system              *)
(* (src/CentralServer: node_manager.go, file_manager.go, utils.go), of the *)
(* storage node's HTTP endpoints (src/Node/main.go) and of the Redis keys   *)
(* the central server reads and writes.                                    *)
(*                                                                         *)
(* The block size and the node size are scaled down (see maxBlockSize), so  *)
(* that a file of a few bytes is split into several blocks.                *)
(***************************************************************************)
EXTENDS Integers, Sequences, FiniteSets, TLC

VARIABLES
    NodeAddresses,  \* nodeManager.NodeAddresses: sequence of URLs
    NodeStats,      \* nodeManager.NodeStats: sequence of [address, usage]
    nodeMode,       \* per storage node: "ok", "noStore", "noDir" or "down"
    nodeBase,       \* per storage node: bytes on its disk before any upload
    nodeFiles,      \* per storage node: stored file name -> bytes
    redis,          \* the Redis keyspace: key -> value
    upPc,           \* position of the /sendFile handler
    upFile,         \* header.Filename of the upload
    upPayload,      \* body of the uploaded file
    upBlocks,       \* the blocks SplitFileIntoBlocks returned for the upload
    tPc,            \* per block task: position inside SendBlockToNode
    tSel,           \* per block task: selectedNode
    tTries,         \* per block task: number of TransmitBlock calls made
    tErr,           \* per block task: the error it sent on ErrorChannel ("" for none)
    errChan,        \* ErrorChannel: the errors sent, in order
    upResp,         \* status code written by the /sendFile handler (0: none yet)
    evicted,        \* history: addresses DeleteNode has been called with
    doneOrder,      \* history: block positions in the order their tasks ended
    dlPc,           \* position of the /retrieveFile handler
    dlFile,         \* fileName of the download
    dlI,            \* loop index i of ReconstructFileFromBlocks
    dlN,            \* numOfBlocks read from the manifest
    dlBytes,        \* fileBytes accumulated by ReconstructFileFromBlocks
    dlErr,          \* error returned by ReconstructFileFromBlocks ("" when nil)
    dlResp,         \* response of the /retrieveFile handler: [status, body]
    corrupted,      \* TRUE once a stored block has been altered on a node's disk
    splitIn,        \* input of a direct call of SplitFileIntoBlocks
    splitOut,       \* its result
    regReq,         \* body of the last /addNode request
    regResp,        \* status the /addNode handler answered (0: none)
    usageResp,      \* answer of the last /nodesUsage request: [status, nodes]
    redisUp,        \* TRUE while the Redis server answers
    mutex,          \* the holder of the registry mutex, "free" when unlocked
    regPc,          \* position of an /addNode handler inside registerNode
    returned,       \* number of /sendFile handlers that have returned
    uploaded,       \* history: file name -> payload of its upload answered 200, for
                    \* the names no returned upload has shared a key with since
    up2Pc,          \* position of a second, concurrent /sendFile handler
    up2Blocks,      \* the blocks the second handler's split returned
    up2Resp,        \* status code written by the second handler (0: none yet)
    up2First        \* index of the first block task of the second handler (0: none)

vars == <<NodeAddresses, NodeStats, nodeMode, nodeBase, nodeFiles, redis,
          upPc, upFile, upPayload, upBlocks, tPc, tSel, tTries, tErr, errChan,
          upResp, evicted, doneOrder, dlPc, dlFile, dlI, dlN, dlBytes, dlErr,
          dlResp, corrupted, splitIn, splitOut, regReq, regResp, usageResp,
          redisUp, mutex, regPc, returned, uploaded, up2Pc, up2Blocks,
          up2Resp, up2First>>

----------------------------------------------------------------------------
(* Bounds and constants *)

MB == 1024 * 1024

\* Scaled: the source sets both to 128 * MB.  They stay equal to each other,
\* and a payload of a few bytes spans several blocks.
maxNodeSize == 3

maxBlockSize == 3

MaxLen == 2          \* longest uploaded payload

MaxSplitLen == 6     \* longest payload given directly to the splitter

MaxTries == 2        \* most TransmitBlock calls one block task is followed for

Nodes == {"A", "B", "C"}

Bytes == {0, 1}

FileNames == {<<"f">>}

\* File names asked for by downloads: the uploaded name and one never uploaded
DownloadNames == FileNames \cup {<<"g">>}

NoNode == [address |-> "", usage |-> 0]

MaxUploads == 2      \* most /sendFile requests served one after the other
MaxSelects == 3      \* most SelectAndUpdateNode calls of a selection run
MaxRegs == 3         \* most /addNode requests that reach registerNode

\* URLs posted to /addNode: the address of a node, the empty string, and
\* the address of node A followed by a path the node does not route.
Urls == Nodes \cup {"", "A/x"}

AddNodeRequests ==
    {[json |-> FALSE, Url |-> ""]} \cup {[json |-> TRUE, Url |-> u] : u \in Urls}

NoRequest == [json |-> FALSE, Url |-> "(none)"]

----------------------------------------------------------------------------
(* Byte sequences *)

SeqsUpTo(S, n) == UNION {[1..k -> S] : k \in 0..n}

RECURSIVE SumSeq(_)
SumSeq(s) == IF s = <<>> THEN 0 ELSE Head(s) + SumSeq(Tail(s))

RECURSIVE Concat(_)
Concat(ss) == IF ss = <<>> THEN <<>> ELSE Head(ss) \o Concat(Tail(ss))

GoSlice(s, lo, hi) == SubSeq(s, lo + 1, hi)     \* the Go expression s[lo:hi]

----------------------------------------------------------------------------
(* utils.go: splitter and digests *)

\* Variant: each full block stops one byte early.
SplitBounds_Gap(len, blockSize) ==
    LET numOfBlocks == len \div blockSize IN
    IF numOfBlocks = 0
    THEN << [lo |-> 0, hi |-> len, position |-> 1] >>
    ELSE [k \in 1..numOfBlocks |->
             [lo |-> blockSize * (k - 1),
              hi |-> blockSize * (k - 1) + blockSize - 1,
              position |-> k]]
         \o << [lo |-> blockSize * numOfBlocks, hi |-> len,
                position |-> numOfBlocks + 1] >>

\* Variant: no final block when the length is a multiple of the block size.
SplitBounds_NoEmptyTail(len, blockSize) ==
    LET numOfBlocks == len \div blockSize
        full == [k \in 1..numOfBlocks |->
                    [lo |-> blockSize * (k - 1),
                     hi |-> blockSize * (k - 1) + blockSize,
                     position |-> k]]
    IN IF numOfBlocks = 0
       THEN << [lo |-> 0, hi |-> len, position |-> 1] >>
       ELSE IF len % blockSize = 0
       THEN full
       ELSE full \o << [lo |-> blockSize * numOfBlocks, hi |-> len,
                        position |-> numOfBlocks + 1] >>

\* The slice bounds SplitFileIntoBlocks computes for a payload of length len.
SplitBounds(len, blockSize) ==
    LET numOfBlocks == len \div blockSize IN
    IF numOfBlocks = 0
    THEN << [lo |-> 0, hi |-> len, position |-> 1] >>
    ELSE [k \in 1..numOfBlocks |->
             [lo |-> blockSize * (k - 1),
              hi |-> blockSize * (k - 1) + blockSize,
              position |-> k]]
         \o << [lo |-> blockSize * numOfBlocks, hi |-> len,
                position |-> numOfBlocks + 1] >>

SplitFileIntoBlocks(file) ==
    LET b == SplitBounds(Len(file), maxBlockSize) IN
    [k \in 1..Len(b) |->
        [bytes |-> GoSlice(file, b[k].lo, b[k].hi), position |-> b[k].position]]

\* SHA-256 is taken to be injective: a digest is its input under a tag.
GenerateFileHash(fileName) == [sha256 |-> fileName]

GenerateBlockHash(blockData) == [sha256 |-> blockData]

FormatHex(h) == [hex |-> h.sha256]              \* fmt.Sprintf("%x", h)

Digits == <<"1", "2", "3", "4", "5", "6", "7", "8", "9">>

Itoa(n) == Digits[n]                            \* strconv.Itoa, for 1..9

\* File names are sequences of string pieces; + is concatenation.
BlockName(fileName, position) == fileName \o <<"-block-", Itoa(position)>>

BlockFileName(fileName, position) == BlockName(fileName, position) \o <<".bin">>

BlockKey(fileName, position) ==
    FormatHex(GenerateFileHash(BlockName(fileName, position)))

ManifestKey(fileName) == FormatHex(GenerateFileHash(fileName))

\* Two file names none of whose Redis keys coincide: the manifest key of one
\* is no block key of the other.
Unrelated(F, G) ==
    /\ F # G
    /\ \A i \in 1..Len(Digits) : F # BlockName(G, i) /\ G # BlockName(F, i)

----------------------------------------------------------------------------
(* The gzip container written and read through pgzip: a magic byte, the    *)
(* body, and a checksum of the body.                                       *)

GzipMagic == 1

Checksum(body) == SumSeq(body) % 2

\* Variant: the writer is never closed, so no checksum is written.
Compress_NoClose(body) == <<GzipMagic>> \o body

Compress(body) == <<GzipMagic>> \o body \o <<Checksum(body)>>

Decompress(data) ==
    IF Len(data) < 2 \/ data[1] # GzipMagic
    THEN [err |-> "gzip: invalid header", bytes |-> <<>>]
    ELSE LET body == SubSeq(data, 2, Len(data) - 1) IN
         IF data[Len(data)] # Checksum(body)
         THEN [err |-> "gzip: invalid checksum", bytes |-> <<>>]
         ELSE [err |-> "", bytes |-> body]

----------------------------------------------------------------------------
(* Storage node endpoints (src/Node/main.go).  A node is                    *)
(*   "ok"      when every endpoint works,                                  *)
(*   "noStore" when os.Create fails in receiveFile while the storage        *)
(*             directory can still be walked and read,                      *)
(*   "noDir"   when the storage directory does not exist: filepath.Walk     *)
(*             and os.Create fail,                                          *)
(*   "down"    when no process listens on its address.                      *)

\* The node a URL's host and port lead to, and the path the URL adds
UrlNode(u) == IF u = "A/x" THEN "A" ELSE u

UrlPath(u) == IF u = "A/x" THEN "/x" ELSE ""

RECURSIVE SumSizes(_, _)
SumSizes(files, names) ==
    IF names = {} THEN 0
    ELSE LET n == CHOOSE x \in names : TRUE IN
         Len(files[n]) + SumSizes(files, names \ {n})

calculateOccupiedSize(n) == nodeBase[n] + SumSizes(nodeFiles[n], DOMAIN nodeFiles[n])

currentHealth(n) == nodeMode[n] # "down"

\* GET u/health as the central server's client sees it: a transport error,
\* the router's 404 for a path it does not know, or currentHealth's 200
healthProbe(u) ==
    IF ~currentHealth(UrlNode(u)) THEN [err |-> TRUE, StatusCode |-> 0]
    ELSE IF UrlPath(u) # "" THEN [err |-> FALSE, StatusCode |-> 404]
    ELSE [err |-> FALSE, StatusCode |-> 200]

\* GET u/getCurrentNodeSpace as the central server's client sees it.  When
\* calculateOccupiedSize fails the node answers 500 with an empty body, and
\* for a path it does not route the router answers 404 with a text body:
\* in both cases the client's JSON decoder returns an error.
getCurrentNodeSpace(u) ==
    LET n == UrlNode(u) IN
    IF nodeMode[n] = "down"
    THEN [err |-> TRUE, decodeErr |-> FALSE, Size |-> 0]
    ELSE IF UrlPath(u) # "" \/ nodeMode[n] = "noDir"
    THEN [err |-> FALSE, decodeErr |-> TRUE, Size |-> 0]
    ELSE [err |-> FALSE, decodeErr |-> FALSE, Size |-> calculateOccupiedSize(n)]

\* POST /receiveFile: TRUE iff the node answers 200
receiveFileOk(n) == nodeMode[n] = "ok"

receiveFileStore(files, n, name, bytes) ==
    IF receiveFileOk(n)
    THEN [files EXCEPT ![n] = (name :> bytes) @@ @]
    ELSE files

\* GET /retrieveFile
retrieveFile(n, name) ==
    IF n \notin Nodes \/ nodeMode[n] = "down" THEN [status |-> 0, body |-> <<>>]
    ELSE IF name \notin DOMAIN nodeFiles[n] THEN [status |-> 404, body |-> <<>>]
    ELSE [status |-> 200, body |-> nodeFiles[n][name]]

----------------------------------------------------------------------------
(* node_manager.go: the registry *)

\* sort.Slice by usage; for the registry's few entries Go runs an insertion
\* sort, which moves an entry left only past entries of greater usage.
InsertByUsage(sorted, e) ==
    LET k == Cardinality({i \in 1..Len(sorted) : sorted[i].usage <= e.usage}) IN
    SubSeq(sorted, 1, k) \o <<e>> \o SubSeq(sorted, k + 1, Len(sorted))

RECURSIVE SortFrom(_, _)
SortFrom(sorted, rest) ==
    IF rest = <<>> THEN sorted
    ELSE SortFrom(InsertByUsage(sorted, Head(rest)), Tail(rest))

SortByUsage(nodes) == SortFrom(<<>>, nodes)

\* The loop of RetrieveNodeStats: an address whose request fails is skipped,
\* a response that does not decode ends the whole call with that error.
RECURSIVE PollAll(_)
PollAll(addrs) ==
    IF addrs = <<>> THEN [err |-> FALSE, nodes |-> <<>>]
    ELSE LET r == getCurrentNodeSpace(Head(addrs))
             rest == PollAll(Tail(addrs))
         IN IF r.err THEN rest
            ELSE IF r.decodeErr \/ rest.err THEN [err |-> TRUE, nodes |-> <<>>]
            ELSE [err |-> FALSE,
                  nodes |-> << [address |-> Head(addrs), usage |-> r.Size] >>
                                \o rest.nodes]

RetrieveNodeStats(addrs) ==
    LET r == PollAll(addrs) IN
    IF r.err \/ Len(r.nodes) = 0 THEN [err |-> TRUE, nodes |-> <<>>]
    ELSE [err |-> FALSE, nodes |-> SortByUsage(r.nodes)]

\* The node SelectAndUpdateNode returns: a copy of NodeStats[0]
SelectedNode(stats) == stats[1]

\* Variant: the usage is raised but NodeStats is not sorted again.
SelectAndUpdateNode_NoSort(stats, size) ==
    [stats EXCEPT ![1].usage = stats[1].usage + size]

\* NodeStats after SelectAndUpdateNode(block) with len(block.bytes) = size
SelectAndUpdateNode(stats, size) ==
    SortByUsage([stats EXCEPT ![1].usage = stats[1].usage + size])

\* Variant: the last entry is dropped whether or not an entry matched.
DeleteNodeStats_DropLast(stats, address) ==
    [i \in 1..(Len(stats) - 1) |->
        IF stats[i].address = address THEN stats[Len(stats)] ELSE stats[i]]

\* Variant: the entries of that address are removed and the slice shrinks.
DeleteNodeStats_Remove(stats, address) ==
    SelectSeq(stats, LAMBDA e : e.address # address)

\* NodeStats after DeleteNode(node): every entry of that address is
\* overwritten with the last entry; the slice keeps its length.
DeleteNodeStats(stats, address) ==
    [i \in 1..Len(stats) |->
        IF stats[i].address = address THEN stats[Len(stats)] ELSE stats[i]]

DeleteNodeAddresses(addrs, address) ==
    [i \in 1..Len(addrs) |->
        IF addrs[i] = address THEN addrs[Len(addrs)] ELSE addrs[i]]

----------------------------------------------------------------------------
(* Redis *)

RedisSet(db, key, n) == (key :> [kind |-> "string", val |-> n]) @@ db

\* HSET fails with WRONGTYPE on a key that holds a string
RedisHSetOk(db, key) == key \notin DOMAIN db \/ db[key].kind = "hash"

\* Variant: a record already present under the key is kept.
RedisHSet_KeepFirst(db, key, address, hash) ==
    IF key \in DOMAIN db THEN db
    ELSE (key :> [kind |-> "hash", node_address |-> address, block_hash |-> hash]) @@ db

RedisHSet(db, key, address, hash) ==
    (key :> [kind |-> "hash", node_address |-> address, block_hash |-> hash]) @@ db

\* The key "nodes": a literal, where every other key is a hex digest
NodesKey == [literal |-> "nodes"]

\* LPUSH; on a key of another type the command fails and the caller only
\* logs the error
RedisLPush(db, key, item) ==
    IF key \notin DOMAIN db THEN (key :> [kind |-> "list", items |-> <<item>>]) @@ db
    ELSE IF db[key].kind = "list"
    THEN [db EXCEPT ![key].items = <<item>> \o @]
    ELSE db

\* GetNumberOfBlocksOfAFile: Atoi of the value, 0 when the key is missing or
\* is not a string (the error is dropped by the caller)
GetNumberOfBlocksOfAFile(db, key) ==
    IF key \in DOMAIN db /\ db[key].kind = "string" THEN db[key].val ELSE 0

----------------------------------------------------------------------------
(* Initial state: no node registered, empty Redis, empty node disks *)

ZeroUsage == [n \in Nodes |-> 0]

ScenarioUsage == [n \in Nodes |-> CASE n = "A" -> 10 [] n = "B" -> 20 [] OTHER -> 5]

\* The nodes whose /receiveFile answers 500
Failing(S) == [n \in Nodes |-> IF n \in S THEN "noStore" ELSE "ok"]

\* Disk usage and behaviour of the storage nodes
NodeConfigs ==
    { [base |-> b, mode |-> Failing(S)] :
          b \in {ZeroUsage, ScenarioUsage}, S \in SUBSET Nodes }

InitIdle ==
    /\ NodeAddresses = <<>>
    /\ NodeStats = <<>>
    /\ nodeFiles = [n \in Nodes |-> <<>>]
    /\ redis = <<>>
    /\ upPc = "idle"
    /\ upFile = <<>>
    /\ upPayload = <<>>
    /\ upBlocks = <<>>
    /\ tPc = <<>>
    /\ tSel = <<>>
    /\ tTries = <<>>
    /\ tErr = <<>>
    /\ errChan = <<>>
    /\ upResp = 0
    /\ evicted = {}
    /\ doneOrder = <<>>
    /\ dlPc = "idle"
    /\ dlFile = <<>>
    /\ dlI = 0
    /\ dlN = 0
    /\ dlBytes = <<>>
    /\ dlErr = ""
    /\ dlResp = [status |-> 0, body |-> <<>>]
    /\ corrupted = FALSE
    /\ splitOut = <<>>
    /\ regReq = NoRequest
    /\ regResp = 0
    /\ usageResp = [status |-> 0, nodes |-> <<>>]
    /\ mutex = "free"
    /\ regPc = "idle"
    /\ returned = 0
    /\ uploaded = <<>>
    /\ up2Pc = "idle"
    /\ up2Blocks = <<>>
    /\ up2Resp = 0
    /\ up2First = 0

Init ==
    /\ InitIdle
    /\ \E c \in NodeConfigs : nodeMode = c.mode /\ nodeBase = c.base
    /\ redisUp = TRUE
    /\ splitIn = <<>>

regVars == <<NodeAddresses, NodeStats>>
envVars == <<nodeMode, nodeBase, redisUp>>
taskVars == <<tPc, tSel, tTries, tErr, errChan, evicted, doneOrder>>
upVars == <<upPc, upFile, upPayload, upBlocks, upResp>>
dlVars == <<dlPc, dlFile, dlI, dlN, dlBytes, dlErr, dlResp>>
splitVars == <<splitIn, splitOut>>
apiVars == <<regReq, regResp, usageResp>>
syncVars == <<mutex, regPc>>
multiVars == <<returned, uploaded, up2Pc, up2Blocks, up2Resp, up2First>>

----------------------------------------------------------------------------
(* POST /addNode *)

\* url.ParseRequestURI: the empty string is rejected
ParseRequestURI(rawURL) == [err |-> rawURL = ""]

\* registerNode: append the address, poll every address, replace NodeStats
\* when the poll succeeded, and push the node's status on the list "nodes".
registerNode(node) ==
    LET addrs == Append(NodeAddresses, node)
        r == RetrieveNodeStats(addrs)
    IN /\ NodeAddresses' = addrs
       /\ NodeStats' = IF r.err THEN NodeStats ELSE r.nodes
       /\ redis' = IF redisUp
                   THEN RedisLPush(redis, NodesKey,
                            [Address |-> node, Status |-> "UP", Usage |-> 0])
                   ELSE redis

\* The /addNode handler on a request body req.
\*  - A body that is not JSON, or a URL that does not parse: 400.
\*  - A failed probe: 500 is written, and as no return follows, registerNode
\*    runs all the same; the later WriteHeader(200) has no effect.
\*  - A probe answered with another status than 200: err is nil, err.Error()
\*    panics, the server recovers and closes the connection without a response.
VerifyAndRegisterNode(req) ==
    /\ regReq' = req
    /\ IF ~req.json \/ ParseRequestURI(req.Url).err
       THEN /\ regResp' = 400
            /\ UNCHANGED <<regVars, redis>>
       ELSE LET res == healthProbe(req.Url) IN
            IF res.err
            THEN /\ regResp' = 500
                 /\ registerNode(req.Url)
            ELSE IF res.StatusCode # 200
            THEN /\ regResp' = 0
                 /\ UNCHANGED <<regVars, redis>>
            ELSE /\ registerNode(req.Url)
                 /\ regResp' = 200

\* A storage node starts and posts its own address to /addNode.  Each node
\* is started once, before the upload arrives.
NodeMain(n) ==
    /\ \A i \in DOMAIN NodeAddresses : NodeAddresses[i] # n
    /\ upPc = "idle"
    /\ VerifyAndRegisterNode([json |-> TRUE, Url |-> n])
    /\ UNCHANGED <<envVars, nodeFiles, upVars, taskVars, dlVars,
                   corrupted, splitVars, usageResp, syncVars, multiVars>>

\* The /nodesUsage handler
\* Variant: the poll drops the addresses that did not answer.
GetNodeUsage_Evict ==
    /\ LET r == RetrieveNodeStats(NodeAddresses) IN
       /\ usageResp' = IF r.err THEN [status |-> 500, nodes |-> <<>>]
                       ELSE [status |-> 200, nodes |-> r.nodes]
       /\ NodeStats' = r.nodes
       /\ NodeAddresses' = SelectSeq(NodeAddresses,
                               LAMBDA u : ~getCurrentNodeSpace(u).err)
    /\ UNCHANGED <<envVars, nodeFiles, redis, upVars, taskVars,
                   dlVars, corrupted, splitVars, regReq, regResp, syncVars, multiVars>>

GetNodeUsage ==
    /\ LET r == RetrieveNodeStats(NodeAddresses) IN
       usageResp' = IF r.err THEN [status |-> 500, nodes |-> <<>>]
                    ELSE [status |-> 200, nodes |-> r.nodes]
    /\ UNCHANGED <<regVars, envVars, nodeFiles, redis, upVars, taskVars,
                   dlVars, corrupted, splitVars, regReq, regResp, syncVars, multiVars>>

----------------------------------------------------------------------------
(* POST /sendFile *)

\* Variant: the error of the manifest write is ignored.
UploadReceive_IgnoreError(name, body) ==
    /\ upPc = "idle"
    /\ LET compressedData == Compress(body)
           listOfBlocks == SplitFileIntoBlocks(compressedData)
       IN /\ upBlocks' = listOfBlocks
          /\ redis' = IF redisUp
                      THEN RedisSet(redis, ManifestKey(name), Len(listOfBlocks))
                      ELSE redis
    /\ upPc' = "refresh"
    /\ upFile' = name
    /\ upPayload' = body
    /\ UNCHANGED <<regVars, envVars, nodeFiles, upResp, taskVars, dlVars,
                   corrupted, splitVars, apiVars, syncVars, multiVars>>

\* Read the file, compress it, split it and write the manifest; when the
\* write fails the handler answers 500 and returns.
UploadReceive(name, body) ==
    /\ upPc = "idle"
    /\ LET compressedData == Compress(body)
           listOfBlocks == SplitFileIntoBlocks(compressedData)
       IN /\ upBlocks' = listOfBlocks
          /\ IF redisUp
             THEN /\ redis' = RedisSet(redis, ManifestKey(name), Len(listOfBlocks))
                  /\ upPc' = "refresh"
                  /\ UNCHANGED upResp
             ELSE /\ upResp' = 500
                  /\ upPc' = "responded"
                  /\ UNCHANGED redis
    /\ upFile' = name
    /\ upPayload' = body
    /\ UNCHANGED <<regVars, envVars, nodeFiles, taskVars, dlVars,
                   corrupted, splitVars, apiVars, syncVars, multiVars>>

\* Poll the nodes, replace NodeStats and start one task per block.
UploadRefresh ==
    /\ upPc = "refresh"
    /\ LET r == RetrieveNodeStats(NodeAddresses) IN
       IF r.err
       THEN /\ upResp' = 500
            /\ upPc' = "responded"
            /\ UNCHANGED <<NodeStats, tPc, tSel, tTries, tErr>>
       ELSE /\ NodeStats' = r.nodes
            /\ upPc' = "tasks"
            /\ tPc' = [p \in 1..Len(upBlocks) |-> "select"]
            /\ tSel' = [p \in 1..Len(upBlocks) |-> NoNode]
            /\ tTries' = [p \in 1..Len(upBlocks) |-> 0]
            /\ tErr' = [p \in 1..Len(upBlocks) |-> ""]
            /\ UNCHANGED upResp
    /\ UNCHANGED <<NodeAddresses, envVars, nodeFiles, redis, upFile, upPayload,
                   upBlocks, errChan, evicted, doneOrder, dlVars, corrupted,
                   splitVars, apiVars, syncVars, multiVars>>

BlockSize(p) == Len(upBlocks[p].bytes)

\* SendBlockToNode up to the loop: first selection and capacity check.
\* SelectAndUpdateNode locks the mutex, works in memory and unlocks: one step,
\* taken when the mutex is free.
\* (On an empty NodeStats the index expression panics; no step is taken.)
\* Variant: the capacity error is sent but the task goes on.
TaskSelect_NoReturn(p) ==
    /\ upPc = "tasks"
    /\ tPc[p] = "select"
    /\ mutex = "free"
    /\ NodeStats # <<>>
    /\ LET selectedNode == SelectedNode(NodeStats) IN
       /\ NodeStats' = SelectAndUpdateNode(NodeStats, BlockSize(p))
       /\ tSel' = [tSel EXCEPT ![p] = selectedNode]
       /\ IF selectedNode.usage > 2 * maxNodeSize
          THEN /\ errChan' = Append(errChan, "all nodes are full")
               /\ tErr' = [tErr EXCEPT ![p] = "all nodes are full"]
          ELSE UNCHANGED <<errChan, tErr>>
       /\ tPc' = [tPc EXCEPT ![p] = "transmit"]
       /\ UNCHANGED doneOrder
    /\ UNCHANGED <<NodeAddresses, envVars, nodeFiles, redis, upVars, tTries,
                   evicted, dlVars, corrupted, splitVars, apiVars, syncVars, multiVars>>

TaskSelect(p) ==
    /\ upPc = "tasks"
    /\ tPc[p] = "select"
    /\ mutex = "free"
    /\ NodeStats # <<>>
    /\ LET selectedNode == SelectedNode(NodeStats) IN
       /\ NodeStats' = SelectAndUpdateNode(NodeStats, BlockSize(p))
       /\ tSel' = [tSel EXCEPT ![p] = selectedNode]
       /\ IF selectedNode.usage > 2 * maxNodeSize
          THEN /\ errChan' = Append(errChan, "all nodes are full")
               /\ tErr' = [tErr EXCEPT ![p] = "all nodes are full"]
               /\ tPc' = [tPc EXCEPT ![p] = "done"]
               /\ doneOrder' = Append(doneOrder, p)
          ELSE /\ tPc' = [tPc EXCEPT ![p] = "transmit"]
               /\ UNCHANGED <<errChan, tErr, doneOrder>>
    /\ UNCHANGED <<NodeAddresses, envVars, nodeFiles, redis, upVars, tTries,
                   evicted, dlVars, corrupted, splitVars, apiVars, syncVars, multiVars>>

\* TransmitBlock: write the location record, then post the block.  The two
\* calls of one attempt are taken as one step: the tasks of one upload write
\* different keys and different files.
TaskTransmit(p) ==
    /\ upPc = "tasks"
    /\ tPc[p] = "transmit"
    /\ tTries[p] < MaxTries
    /\ tTries' = [tTries EXCEPT ![p] = @ + 1]
    /\ LET key == BlockKey(upFile, upBlocks[p].position)
           node == tSel[p].address
           blockDataHash == FormatHex(GenerateBlockHash(upBlocks[p].bytes))
       IN IF ~redisUp \/ ~RedisHSetOk(redis, key)
          THEN /\ tPc' = [tPc EXCEPT ![p] = "delete"]
               /\ UNCHANGED <<redis, nodeFiles, doneOrder>>
          ELSE /\ redis' = RedisHSet(redis, key, node, blockDataHash)
               /\ nodeFiles' = receiveFileStore(nodeFiles, node,
                      BlockFileName(upFile, upBlocks[p].position), upBlocks[p].bytes)
               /\ IF receiveFileOk(node)
                  THEN /\ tPc' = [tPc EXCEPT ![p] = "done"]
                       /\ doneOrder' = Append(doneOrder, p)
                  ELSE /\ tPc' = [tPc EXCEPT ![p] = "delete"]
                       /\ UNCHANGED doneOrder
    /\ UNCHANGED <<regVars, envVars, upVars, tSel, tErr, errChan, evicted,
                   dlVars, corrupted, splitVars, apiVars, syncVars, multiVars>>

\* Variant: DeleteNode also deletes the location records that name the node.
TaskDelete_PurgeRecords(p) ==
    /\ upPc = "tasks"
    /\ tPc[p] = "delete"
    /\ mutex = "free"
    /\ NodeStats' = DeleteNodeStats(NodeStats, tSel[p].address)
    /\ NodeAddresses' = DeleteNodeAddresses(NodeAddresses, tSel[p].address)
    /\ redis' = [k \in {j \in DOMAIN redis :
                            ~(redis[j].kind = "hash"
                                /\ redis[j].node_address = tSel[p].address)}
                    |-> redis[k]]
    /\ tPc' = [tPc EXCEPT ![p] = "check"]
    /\ evicted' = evicted \cup {tSel[p].address}
    /\ UNCHANGED <<envVars, nodeFiles, upVars, tSel, tTries, tErr,
                   errChan, doneOrder, dlVars, corrupted, splitVars, apiVars,
                   syncVars, multiVars>>

\* DeleteNode(selectedNode) after a failed TransmitBlock.
TaskDelete(p) ==
    /\ upPc = "tasks"
    /\ tPc[p] = "delete"
    /\ mutex = "free"
    /\ NodeStats' = DeleteNodeStats(NodeStats, tSel[p].address)
    /\ NodeAddresses' = DeleteNodeAddresses(NodeAddresses, tSel[p].address)
    /\ tPc' = [tPc EXCEPT ![p] = "check"]
    /\ evicted' = evicted \cup {tSel[p].address}
    /\ UNCHANGED <<envVars, nodeFiles, redis, upVars, tSel, tTries, tErr,
                   errChan, doneOrder, dlVars, corrupted, splitVars, apiVars, syncVars, multiVars>>

\* The test len(NodeStats) == 0 after DeleteNode.
TaskCheck(p) ==
    /\ upPc = "tasks"
    /\ tPc[p] = "check"
    /\ IF Len(NodeStats) = 0
       THEN /\ errChan' = Append(errChan, "no available nodes")
            /\ tErr' = [tErr EXCEPT ![p] = "no available nodes"]
            /\ tPc' = [tPc EXCEPT ![p] = "done"]
            /\ doneOrder' = Append(doneOrder, p)
       ELSE /\ tPc' = [tPc EXCEPT ![p] = "reselect"]
            /\ UNCHANGED <<errChan, tErr, doneOrder>>
    /\ UNCHANGED <<regVars, envVars, nodeFiles, redis, upVars, tSel, tTries,
                   evicted, dlVars, corrupted, splitVars, apiVars, syncVars, multiVars>>

\* The selection at the end of the loop body: no capacity check follows it.
TaskReselect(p) ==
    /\ upPc = "tasks"
    /\ tPc[p] = "reselect"
    /\ mutex = "free"
    /\ NodeStats # <<>>
    /\ NodeStats' = SelectAndUpdateNode(NodeStats, BlockSize(p))
    /\ tSel' = [tSel EXCEPT ![p] = SelectedNode(NodeStats)]
    /\ tPc' = [tPc EXCEPT ![p] = "transmit"]
    /\ UNCHANGED <<NodeAddresses, envVars, nodeFiles, redis, upVars, tTries,
                   tErr, errChan, evicted, doneOrder, dlVars, corrupted,
                   splitVars, apiVars, syncVars, multiVars>>

\* Variant: the handler answers as soon as one task has finished.
UploadRespond_NoWait ==
    /\ upPc = "tasks"
    /\ \E p \in DOMAIN tPc : tPc[p] = "done"
    /\ upResp' = IF errChan # <<>> THEN 500 ELSE 200
    /\ upPc' = "responded"
    /\ UNCHANGED <<regVars, envVars, nodeFiles, redis, upFile, upPayload,
                   upBlocks, taskVars, dlVars, corrupted, splitVars, apiVars, syncVars, multiVars>>

\* Variant: a refused upload deletes its manifest.
UploadRespond_Rollback ==
    /\ upPc = "tasks"
    /\ \A p \in DOMAIN tPc : tPc[p] = "done"
    /\ upResp' = IF errChan # <<>> THEN 500 ELSE 200
    /\ redis' = IF errChan # <<>>
                THEN [k \in DOMAIN redis \ {ManifestKey(upFile)} |-> redis[k]]
                ELSE redis
    /\ upPc' = "responded"
    /\ UNCHANGED <<regVars, envVars, nodeFiles, upFile, upPayload,
                   upBlocks, taskVars, dlVars, corrupted, splitVars, apiVars, syncVars, multiVars>>

\* Variant: only an upload all of whose tasks reported an error is refused.
UploadRespond_AllFailed ==
    /\ upPc = "tasks"
    /\ \A p \in DOMAIN tPc : tPc[p] = "done"
    /\ upResp' = IF Len(errChan) = Len(tPc) THEN 500 ELSE 200
    /\ upPc' = "responded"
    /\ UNCHANGED <<regVars, envVars, nodeFiles, redis, upFile, upPayload,
                   upBlocks, taskVars, dlVars, corrupted, splitVars, apiVars, syncVars, multiVars>>

\* wg.Wait(), then the first error of ErrorChannel decides the status.
UploadRespond ==
    /\ upPc = "tasks"
    /\ \A p \in DOMAIN tPc : tPc[p] = "done"
    /\ upResp' = IF errChan # <<>> THEN 500 ELSE 200
    /\ upPc' = "responded"
    /\ UNCHANGED <<regVars, envVars, nodeFiles, redis, upFile, upPayload,
                   upBlocks, taskVars, dlVars, corrupted, splitVars, apiVars, syncVars, multiVars>>

----------------------------------------------------------------------------
(* GET /retrieveFile *)

\* ReconstructFileFromBlocks up to the loop: read the block count.  The
\* download is followed once the upload has been answered.
DownloadStart(name) ==
    /\ dlPc = "idle"
    /\ upPc = "responded"
    /\ dlFile' = name
    /\ dlN' = IF redisUp THEN GetNumberOfBlocksOfAFile(redis, ManifestKey(name))
               ELSE 0
    /\ dlI' = 0
    /\ dlPc' = "loop"
    /\ UNCHANGED <<regVars, envVars, nodeFiles, redis, upVars, taskVars,
                   dlBytes, dlErr, dlResp, corrupted, splitVars, apiVars, syncVars, multiVars>>

\* Variant: the loop walks the positions from the last to the first.
DownloadBlockName_Reversed(fileName, i) == BlockName(fileName, dlN - i)

\* The block name the loop builds for index i (i counts from 0)
DownloadBlockName(fileName, i) == BlockName(fileName, i + 1)

\* Variant: the handler sends the bytes gathered so far.
DownloadFail_Partial(err) ==
    /\ dlErr' = err
    /\ dlResp' = [status |-> 200, body |-> dlBytes]
    /\ dlPc' = "done"
    /\ UNCHANGED <<dlI, dlBytes>>

\* Variant: a failing position is skipped and the loop goes on.
DownloadFail_Skip(err) ==
    /\ dlErr' = err
    /\ dlI' = dlI + 1
    /\ UNCHANGED <<dlPc, dlResp, dlBytes>>

\* DownloadFile's answer when ReconstructFileFromBlocks returned err
DownloadFail(err) ==
    /\ dlErr' = err
    /\ dlResp' = [status |-> 500, body |-> <<>>]
    /\ dlPc' = "done"
    /\ UNCHANGED <<dlI, dlBytes>>

\* One iteration of the loop: read the record, fetch the block, verify it.
DownloadBlock ==
    /\ dlPc = "loop"
    /\ dlI < dlN
    /\ LET fileBlockName == DownloadBlockName(dlFile, dlI)
           formattedBs == FormatHex(GenerateFileHash(fileBlockName))
       IN IF ~redisUp
          THEN DownloadFail("redis: connection refused")
          ELSE IF formattedBs \in DOMAIN redis /\ redis[formattedBs].kind # "hash"
          THEN DownloadFail("WRONGTYPE")
          ELSE IF formattedBs \notin DOMAIN redis
          THEN DownloadFail("failed to retrieve block from node")
          ELSE LET nodeAddress == redis[formattedBs].node_address
                   blockDataOriginalHash == redis[formattedBs].block_hash
                   res == retrieveFile(nodeAddress, fileBlockName \o <<".bin">>)
               IN IF res.status # 200
                  THEN DownloadFail("failed to retrieve block from node")
                  ELSE IF FormatHex(GenerateBlockHash(res.body)) # blockDataOriginalHash
                  THEN DownloadFail("block hash mismatch")
                  ELSE /\ dlBytes' = dlBytes \o res.body
                       /\ dlI' = dlI + 1
                       /\ UNCHANGED <<dlPc, dlErr, dlResp>>
    /\ UNCHANGED <<regVars, envVars, nodeFiles, redis, upVars, taskVars,
                   dlFile, dlN, corrupted, splitVars, apiVars, syncVars, multiVars>>

\* After the loop: decompress the concatenation and answer.
DownloadFinish ==
    /\ dlPc = "loop"
    /\ dlI >= dlN
    /\ LET d == Decompress(dlBytes) IN
       IF d.err # ""
       THEN DownloadFail(d.err)
       ELSE /\ dlResp' = [status |-> 200, body |-> d.bytes]
            /\ dlPc' = "done"
            /\ UNCHANGED <<dlI, dlBytes, dlErr>>
    /\ UNCHANGED <<regVars, envVars, nodeFiles, redis, upVars, taskVars,
                   dlFile, dlN, corrupted, splitVars, apiVars, syncVars, multiVars>>

----------------------------------------------------------------------------
(* Environment: a stored block is altered on a node's disk *)

Alterations(b) ==
    {[b EXCEPT ![i] = 1 - b[i]] : i \in 1..Len(b)}
        \cup {Append(b, 0)}
        \cup (IF b = <<>> THEN {} ELSE {SubSeq(b, 1, Len(b) - 1)})

CorruptBlock(n, name) ==
    /\ upPc = "responded"
    /\ dlPc = "idle"
    /\ ~corrupted
    /\ name \in DOMAIN nodeFiles[n]
    /\ \E b \in Alterations(nodeFiles[n][name]) :
           nodeFiles' = [nodeFiles EXCEPT ![n][name] = b]
    /\ corrupted' = TRUE
    /\ UNCHANGED <<regVars, envVars, redis, upVars, taskVars, dlVars, splitVars, apiVars, syncVars, multiVars>>

----------------------------------------------------------------------------

Next ==
    \/ \E n \in Nodes : NodeMain(n)
    \/ \E name \in FileNames, body \in SeqsUpTo(Bytes, MaxLen) :
           UploadReceive(name, body)
    \/ UploadRefresh
    \/ \E p \in DOMAIN tPc : TaskSelect(p)
    \/ \E p \in DOMAIN tPc : TaskTransmit(p)
    \/ \E p \in DOMAIN tPc : TaskDelete(p)
    \/ \E p \in DOMAIN tPc : TaskCheck(p)
    \/ \E p \in DOMAIN tPc : TaskReselect(p)
    \/ UploadRespond
    \/ \E name \in DownloadNames : DownloadStart(name)
    \/ DownloadBlock
    \/ DownloadFinish
    \/ \E n \in Nodes : \E name \in DOMAIN nodeFiles[n] : CorruptBlock(n, name)

Spec == Init /\ [][Next]_vars

----------------------------------------------------------------------------
(* Direct calls of the splitter on arbitrary payloads *)

InitSplit ==
    /\ InitIdle
    /\ nodeMode = Failing({})
    /\ nodeBase = ZeroUsage
    /\ redisUp = TRUE
    /\ splitIn \in SeqsUpTo(Bytes, MaxSplitLen)

CallSplit ==
    /\ splitOut = <<>>
    /\ splitOut' = SplitFileIntoBlocks(splitIn)
    /\ UNCHANGED <<regVars, envVars, nodeFiles, redis, upVars, taskVars,
                   dlVars, corrupted, splitIn, apiVars, syncVars, multiVars>>

NextSplit == CallSplit

SplitSpec == InitSplit /\ [][NextSplit]_vars

----------------------------------------------------------------------------
(* The registry under arbitrary /addNode and /nodesUsage requests, with     *)
(* nodes that are down or have lost their storage directory                 *)

InitReg ==
    /\ InitIdle
    /\ nodeMode \in [Nodes -> {"ok", "noDir", "down"}]
    /\ nodeBase \in {ZeroUsage, ScenarioUsage}
    /\ redisUp = TRUE
    /\ splitIn = <<>>

AddNode(req) ==
    /\ Len(NodeAddresses) < MaxRegs
    /\ VerifyAndRegisterNode(req)
    /\ UNCHANGED <<envVars, nodeFiles, upVars, taskVars, dlVars,
                   corrupted, splitVars, usageResp, syncVars, multiVars>>

\* A node process ends: its server no longer accepts connections.
NodeStops(n) ==
    /\ nodeMode[n] = "ok"
    /\ nodeMode' = [nodeMode EXCEPT ![n] = "down"]
    /\ UNCHANGED <<regVars, nodeBase, redisUp, nodeFiles, redis, upVars,
                   taskVars, dlVars, corrupted, splitVars, apiVars, syncVars, multiVars>>

\* A node process is started again on the same address.
NodeStarts(n) ==
    /\ nodeMode[n] = "down"
    /\ nodeMode' = [nodeMode EXCEPT ![n] = "ok"]
    /\ UNCHANGED <<regVars, nodeBase, redisUp, nodeFiles, redis, upVars,
                   taskVars, dlVars, corrupted, splitVars, apiVars, syncVars, multiVars>>

NextReg ==
    \/ \E req \in AddNodeRequests : AddNode(req)
    \/ GetNodeUsage
    \/ \E n \in Nodes : NodeStops(n)
    \/ \E n \in Nodes : NodeStarts(n)

RegSpec == InitReg /\ [][NextReg]_vars

----------------------------------------------------------------------------
(* The upload at the grain of its single calls: registerNode in the three   *)
(* stretches between Lock and Unlock, TransmitBlock as the HSET followed by *)
(* the POST, with /addNode requests arriving and Redis going down at any    *)
(* moment                                                                   *)

FineNodes == {"A", "B"}

\* An empty file (one block) and a file of MaxLen bytes (two blocks)
FinePayloads == {<<>>, [i \in 1..MaxLen |-> i % 2]}

InitFine ==
    /\ InitIdle
    /\ nodeMode \in {Failing({}), Failing({"A"})}
    /\ nodeBase = ZeroUsage
    /\ redisUp = TRUE
    /\ splitIn = <<>>

\* VerifyAndRegisterNode of a node that answers the probe, up to and with
\* registerNode's Lock and append.  Each node registers itself once.
registerNode_Lock(node) ==
    /\ regPc = "idle"
    /\ mutex = "free"
    /\ \A i \in DOMAIN NodeAddresses : NodeAddresses[i] # node
    /\ ~healthProbe(node).err
    /\ healthProbe(node).StatusCode = 200
    /\ mutex' = "addNode"
    /\ NodeAddresses' = Append(NodeAddresses, node)
    /\ regReq' = [json |-> TRUE, Url |-> node]
    /\ regPc' = "poll"
    /\ UNCHANGED <<NodeStats, envVars, nodeFiles, redis, upVars, taskVars,
                   dlVars, corrupted, splitVars, regResp, usageResp,
                   multiVars>>

\* registerNode's call of RetrieveNodeStats: every address is polled while
\* the mutex stays locked
registerNode_Poll ==
    /\ regPc = "poll"
    /\ LET r == RetrieveNodeStats(NodeAddresses) IN
       NodeStats' = IF r.err THEN NodeStats ELSE r.nodes
    /\ regPc' = "push"
    /\ UNCHANGED <<NodeAddresses, envVars, nodeFiles, redis, upVars, taskVars,
                   dlVars, corrupted, splitVars, apiVars, mutex, multiVars>>

\* registerNode's LPUSH and Unlock, and the handler's answer
registerNode_Unlock ==
    /\ regPc = "push"
    /\ redis' = IF redisUp
                THEN RedisLPush(redis, NodesKey,
                         [Address |-> regReq.Url, Status |-> "UP", Usage |-> 0])
                ELSE redis
    /\ mutex' = "free"
    /\ regPc' = "idle"
    /\ regResp' = 200
    /\ UNCHANGED <<regVars, envVars, nodeFiles, upVars, taskVars, dlVars,
                   corrupted, splitVars, regReq, usageResp, multiVars>>

\* Variant: the block is posted whether or not the HSET succeeded.
TaskRecord_IgnoreError(p) ==
    /\ upPc = "tasks"
    /\ tPc[p] = "transmit"
    /\ tTries[p] < MaxTries
    /\ tTries' = [tTries EXCEPT ![p] = @ + 1]
    /\ LET key == BlockKey(upFile, upBlocks[p].position)
           blockDataHash == FormatHex(GenerateBlockHash(upBlocks[p].bytes))
       IN redis' = IF ~redisUp \/ ~RedisHSetOk(redis, key) THEN redis
                   ELSE RedisHSet(redis, key, tSel[p].address, blockDataHash)
    /\ tPc' = [tPc EXCEPT ![p] = "post"]
    /\ UNCHANGED <<regVars, envVars, nodeFiles, upVars, tSel, tErr, errChan,
                   evicted, doneOrder, dlVars, corrupted, splitVars, apiVars,
                   syncVars, multiVars>>

\* TransmitBlock, first call: HSET of the location record
TaskRecord(p) ==
    /\ upPc = "tasks"
    /\ tPc[p] = "transmit"
    /\ tTries[p] < MaxTries
    /\ tTries' = [tTries EXCEPT ![p] = @ + 1]
    /\ LET key == BlockKey(upFile, upBlocks[p].position)
           blockDataHash == FormatHex(GenerateBlockHash(upBlocks[p].bytes))
       IN IF ~redisUp \/ ~RedisHSetOk(redis, key)
          THEN /\ tPc' = [tPc EXCEPT ![p] = "delete"]
               /\ UNCHANGED redis
          ELSE /\ redis' = RedisHSet(redis, key, tSel[p].address, blockDataHash)
               /\ tPc' = [tPc EXCEPT ![p] = "post"]
    /\ UNCHANGED <<regVars, envVars, nodeFiles, upVars, tSel, tErr, errChan,
                   evicted, doneOrder, dlVars, corrupted, splitVars, apiVars,
                   syncVars, multiVars>>

\* TransmitBlock, second call: POST of the block to the selected node
TaskPost(p) ==
    /\ upPc = "tasks"
    /\ tPc[p] = "post"
    /\ LET node == tSel[p].address IN
       /\ nodeFiles' = receiveFileStore(nodeFiles, node,
              BlockFileName(upFile, upBlocks[p].position), upBlocks[p].bytes)
       /\ IF receiveFileOk(node)
          THEN /\ tPc' = [tPc EXCEPT ![p] = "done"]
               /\ doneOrder' = Append(doneOrder, p)
          ELSE /\ tPc' = [tPc EXCEPT ![p] = "delete"]
               /\ UNCHANGED doneOrder
    /\ UNCHANGED <<regVars, envVars, redis, upVars, tSel, tTries, tErr,
                   errChan, evicted, dlVars, corrupted, splitVars, apiVars,
                   syncVars, multiVars>>

\* The Redis server stops answering
RedisStops ==
    /\ redisUp
    /\ redisUp' = FALSE
    /\ UNCHANGED <<regVars, nodeMode, nodeBase, nodeFiles, redis, upVars,
                   taskVars, dlVars, corrupted, splitVars, apiVars, syncVars, multiVars>>

NextFine ==
    \/ \E n \in FineNodes : registerNode_Lock(n)
    \/ registerNode_Poll
    \/ registerNode_Unlock
    \/ \E name \in FileNames, body \in FinePayloads : UploadReceive(name, body)
    \/ UploadRefresh
    \/ \E p \in DOMAIN tPc : TaskSelect(p)
    \/ \E p \in DOMAIN tPc : TaskRecord(p)
    \/ \E p \in DOMAIN tPc : TaskPost(p)
    \/ \E p \in DOMAIN tPc : TaskDelete(p)
    \/ \E p \in DOMAIN tPc : TaskCheck(p)
    \/ \E p \in DOMAIN tPc : TaskReselect(p)
    \/ UploadRespond
    \/ RedisStops

FineSpec == InitFine /\ [][NextFine]_vars

----------------------------------------------------------------------------
(* Selections on a registry of healthy nodes: nodes register in some order,
   then SelectAndUpdateNode is called with blocks of any size up to
   maxBlockSize; tSel collects the returned nodes in call order. *)

InitSelect ==
    /\ InitIdle
    /\ nodeMode = Failing({})
    /\ nodeBase \in {ZeroUsage, ScenarioUsage}
    /\ redisUp = TRUE
    /\ splitIn = <<>>

SelectBlock(size) ==
    /\ NodeStats # <<>>
    /\ Len(tSel) < MaxSelects
    /\ NodeStats' = SelectAndUpdateNode(NodeStats, size)
    /\ tSel' = Append(tSel, SelectedNode(NodeStats))
    /\ UNCHANGED <<NodeAddresses, envVars, nodeFiles, redis, upVars, tPc,
                   tTries, tErr, errChan, evicted, doneOrder, dlVars,
                   corrupted, splitVars, apiVars, syncVars, multiVars>>

NextSelect ==
    \/ \E n \in Nodes : NodeMain(n)
    \/ \E size \in 0..maxBlockSize : SelectBlock(size)

SelectSpec == InitSelect /\ [][NextSelect]_vars

----------------------------------------------------------------------------
(* Two /sendFile requests for the same file name handled at the same time.
   The block tasks of the second handler are appended to those of the first;
   up2First is the index of its first task.  TransmitBlock is taken in its
   two steps.  The answer of one handler is no input of the other: the first
   handler's answer is taken once the second has answered or has not begun. *)

\* Files given to the two handlers: an empty file (one block) and a file of
\* one byte (compressed to maxBlockSize bytes: a full block and an empty one)
FirstPayloads == {<<>>}
SecondPayloads == {<<0>>}

\* The block tasks of the first and of the second handler
Own1 == {p \in DOMAIN tPc : up2First = 0 \/ p < up2First}
Own2 == {p \in DOMAIN tPc : up2First # 0 /\ p >= up2First}

\* The second handler reads its file, compresses and splits it and writes
\* the manifest.
Upload2Receive(body) ==
    /\ up2Pc = "idle"
    /\ upPc \in {"refresh", "tasks"}
    /\ LET listOfBlocks == SplitFileIntoBlocks(Compress(body)) IN
       IF redisUp
       THEN /\ redis' = RedisSet(redis, ManifestKey(upFile), Len(listOfBlocks))
            /\ up2Blocks' = listOfBlocks
            /\ up2Pc' = "refresh"
            /\ UNCHANGED up2Resp
       ELSE /\ up2Resp' = 500
            /\ up2Pc' = "responded"
            /\ UNCHANGED <<redis, up2Blocks>>
    /\ UNCHANGED <<regVars, envVars, nodeFiles, upVars, taskVars, dlVars,
                   corrupted, splitVars, apiVars, syncVars, returned, uploaded,
                   up2First>>

\* The second handler polls the nodes, replaces NodeStats and starts one
\* task per block.
Upload2Refresh ==
    /\ up2Pc = "refresh"
    /\ upPc = "tasks"
    /\ LET r == RetrieveNodeStats(NodeAddresses)
           n == Len(up2Blocks)
       IN IF r.err
          THEN /\ up2Resp' = 500
               /\ up2Pc' = "responded"
               /\ UNCHANGED <<NodeStats, upBlocks, tPc, tSel, tTries, tErr, up2First>>
          ELSE /\ NodeStats' = r.nodes
               /\ up2Pc' = "tasks"
               /\ up2First' = Len(upBlocks) + 1
               /\ upBlocks' = upBlocks \o up2Blocks
               /\ tPc' = tPc \o [p \in 1..n |-> "select"]
               /\ tSel' = tSel \o [p \in 1..n |-> NoNode]
               /\ tTries' = tTries \o [p \in 1..n |-> 0]
               /\ tErr' = tErr \o [p \in 1..n |-> ""]
               /\ UNCHANGED up2Resp
    /\ UNCHANGED <<NodeAddresses, envVars, nodeFiles, redis, upPc, upFile,
                   upPayload, upResp, errChan, evicted, doneOrder, dlVars,
                   corrupted, splitVars, apiVars, syncVars, returned, uploaded,
                   up2Blocks>>

\* wg.Wait() and the answer of the second handler
Upload2Respond ==
    /\ up2Pc = "tasks"
    /\ \A p \in Own2 : tPc[p] = "done"
    /\ up2Resp' = IF \E p \in Own2 : tErr[p] # "" THEN 500 ELSE 200
    /\ up2Pc' = "responded"
    /\ UNCHANGED <<regVars, envVars, nodeFiles, redis, upVars, taskVars, dlVars,
                   corrupted, splitVars, apiVars, syncVars, returned, uploaded,
                   up2Blocks, up2First>>

\* wg.Wait() and the answer of the first handler
UploadRespondFirst ==
    /\ upPc = "tasks"
    /\ up2Pc \in {"idle", "responded"}
    /\ \A p \in Own1 : tPc[p] = "done"
    /\ upResp' = IF \E p \in Own1 : tErr[p] # "" THEN 500 ELSE 200
    /\ upPc' = "responded"
    /\ UNCHANGED <<regVars, envVars, nodeFiles, redis, upFile, upPayload,
                   upBlocks, taskVars, dlVars, corrupted, splitVars, apiVars,
                   syncVars, multiVars>>

InitTwo ==
    /\ InitIdle
    /\ nodeMode \in {Failing({}), Failing({"A"})}
    /\ nodeBase = ZeroUsage
    /\ redisUp = TRUE
    /\ splitIn = <<>>

NextTwo ==
    \/ \E n \in FineNodes : NodeMain(n)
    \/ \E name \in FileNames, body \in FirstPayloads : UploadReceive(name, body)
    \/ UploadRefresh
    \/ \E body \in SecondPayloads : Upload2Receive(body)
    \/ Upload2Refresh
    \/ \E p \in DOMAIN tPc : TaskSelect(p)
    \/ \E p \in DOMAIN tPc : TaskRecord(p)
    \/ \E p \in DOMAIN tPc : TaskPost(p)
    \/ \E p \in DOMAIN tPc : TaskDelete(p)
    \/ \E p \in DOMAIN tPc : TaskCheck(p)
    \/ \E p \in DOMAIN tPc : TaskReselect(p)
    \/ UploadRespondFirst
    \/ Upload2Respond

TwoSpec == InitTwo /\ [][NextTwo]_vars

----------------------------------------------------------------------------
(* Uploads served one after the other, then a download.  A node's storage
   directory may become unwritable between or during uploads while the node
   goes on serving the blocks it holds. *)

SeqNames == {<<"f">>, <<"g">>}

\* The /sendFile handler has answered and returns; the server is ready
\* for the next request.
UploadReturn ==
    /\ upPc = "responded"
    /\ dlPc = "idle"
    /\ returned < MaxUploads - 1
    /\ returned' = returned + 1
    /\ LET kept == [F \in {G \in DOMAIN uploaded : Unrelated(G, upFile)}
                        |-> uploaded[F]]
       IN uploaded' = IF upResp = 200 THEN (upFile :> upPayload) @@ kept
                      ELSE kept
    /\ upPc' = "idle"
    /\ upFile' = <<>>
    /\ upPayload' = <<>>
    /\ upBlocks' = <<>>
    /\ upResp' = 0
    /\ tPc' = <<>>
    /\ tSel' = <<>>
    /\ tTries' = <<>>
    /\ tErr' = <<>>
    /\ errChan' = <<>>
    /\ doneOrder' = <<>>
    /\ UNCHANGED <<regVars, envVars, nodeFiles, redis, evicted, dlVars,
                   corrupted, splitVars, apiVars, syncVars, up2Pc, up2Blocks,
                   up2Resp, up2First>>

\* os.Create begins to fail on a node: /receiveFile answers 500 from now on,
\* /retrieveFile and /getCurrentNodeSpace answer as before.
NodeStoreFails(n) ==
    /\ nodeMode[n] = "ok"
    /\ nodeMode' = [nodeMode EXCEPT ![n] = "noStore"]
    /\ UNCHANGED <<regVars, nodeBase, redisUp, nodeFiles, redis, upVars,
                   taskVars, dlVars, corrupted, splitVars, apiVars, syncVars,
                   multiVars>>

InitSeq ==
    /\ InitIdle
    /\ nodeMode = Failing({})
    /\ nodeBase = ZeroUsage
    /\ redisUp = TRUE
    /\ splitIn = <<>>

NextSeq ==
    \/ \E n \in FineNodes : NodeMain(n)
    \/ \E name \in SeqNames, body \in FinePayloads : UploadReceive(name, body)
    \/ UploadRefresh
    \/ \E p \in DOMAIN tPc : TaskSelect(p)
    \/ \E p \in DOMAIN tPc : TaskTransmit(p)
    \/ \E p \in DOMAIN tPc : TaskDelete(p)
    \/ \E p \in DOMAIN tPc : TaskCheck(p)
    \/ \E p \in DOMAIN tPc : TaskReselect(p)
    \/ UploadRespond
    \/ UploadReturn
    \/ \E n \in FineNodes : NodeStoreFails(n)
    \/ \E name \in SeqNames : DownloadStart(name)
    \/ DownloadBlock
    \/ DownloadFinish

SeqSpec == InitSeq /\ [][NextSeq]_vars

----------------------------------------------------------------------------
(* Uploads served one after the other on healthy nodes, where one file name
   is the block name of the other. *)

ClashNames == {<<"f">>, BlockName(<<"f">>, 1)}

NextClash ==
    \/ \E n \in FineNodes : NodeMain(n)
    \/ \E name \in ClashNames, body \in FinePayloads : UploadReceive(name, body)
    \/ UploadRefresh
    \/ \E p \in DOMAIN tPc : TaskSelect(p)
    \/ \E p \in DOMAIN tPc : TaskTransmit(p)
    \/ \E p \in DOMAIN tPc : TaskDelete(p)
    \/ \E p \in DOMAIN tPc : TaskCheck(p)
    \/ \E p \in DOMAIN tPc : TaskReselect(p)
    \/ UploadRespond
    \/ UploadReturn

ClashSpec == InitSeq /\ [][NextClash]_vars

----------------------------------------------------------------------------
(* Uploads to nodes that are partly filled: A has room for one more block,
   B is over the limit of 2 * maxNodeSize, C is empty and may refuse to
   store. *)

PartUsage == [n \in Nodes |-> CASE n = "A" -> maxNodeSize + 1
                                [] n = "B" -> 3 * maxNodeSize + 1
                                [] OTHER -> 0]

InitCap ==
    /\ InitIdle
    /\ nodeMode \in {Failing({}), Failing({"C"})}
    /\ nodeBase = PartUsage
    /\ redisUp = TRUE
    /\ splitIn = <<>>

NextCap ==
    \/ \E n \in Nodes : NodeMain(n)
    \/ \E name \in FileNames, body \in FinePayloads : UploadReceive(name, body)
    \/ UploadRefresh
    \/ \E p \in DOMAIN tPc : TaskSelect(p)
    \/ \E p \in DOMAIN tPc : TaskTransmit(p)
    \/ \E p \in DOMAIN tPc : TaskDelete(p)
    \/ \E p \in DOMAIN tPc : TaskCheck(p)
    \/ \E p \in DOMAIN tPc : TaskReselect(p)
    \/ UploadRespond

CapSpec == InitCap /\ [][NextCap]_vars

----------------------------------------------------------------------------
(* Properties *)

Range(f) == {f[i] : i \in DOMAIN f}

Usages(stats) == {stats[i].usage : i \in DOMAIN stats}

MinUsage(stats) == CHOOSE u \in Usages(stats) : \A v \in Usages(stats) : u <= v

IsSortedByUsage(stats) ==
    \A i \in 1..(Len(stats) - 1) : stats[i].usage <= stats[i + 1].usage

\* How often entry e occurs in the sequence s
Count(s, e) == Cardinality({i \in DOMAIN s : s[i] = e})

SameEntries(s, t) ==
    /\ Len(s) = Len(t)
    /\ \A e \in Range(s) \cup Range(t) : Count(s, e) = Count(t, e)

\* The step in which block task p runs SelectAndUpdateNode
SelectStep(p) ==
    /\ tPc[p] \in {"select", "reselect"}
    /\ tPc'[p] \notin {"select", "reselect"}

AllHealthy == (\A n \in Nodes : nodeMode[n] = "ok") /\ ~corrupted

\* C1 (round trip): when an upload has answered 200, every node is healthy
\* and no stored block was altered, a finished download of the file name
\* returns status 200 and exactly the uploaded payload.
C1_RoundTrip ==
    (upResp = 200 /\ AllHealthy /\ dlPc = "done" /\ dlFile = upFile)
        => (dlErr = "" /\ dlResp = [status |-> 200, body |-> upPayload])

C1_Witness ==
    /\ upResp = 200 /\ AllHealthy /\ dlPc = "done" /\ dlFile = upFile
    /\ Len(upPayload) = MaxLen
    /\ Len(upBlocks) >= 2
    /\ dlResp.body = upPayload

\* C2 (least-loaded selection): every SelectAndUpdateNode call returns an
\* entry of the registry whose usage is the minimum over NodeStats.
C2_LeastLoaded ==
    [][\A p \in DOMAIN tPc :
          SelectStep(p) =>
              /\ tSel'[p] \in Range(NodeStats)
              /\ tSel'[p].usage = MinUsage(NodeStats)]_vars

\* C3 (reservation): SelectAndUpdateNode returns the first entry; afterwards
\* NodeStats holds that entry with its usage raised by len(block.bytes),
\* every other entry unchanged, and NodeStats is sorted ascending by usage.
C3_Reservation ==
    [][\A p \in DOMAIN tPc :
          SelectStep(p) =>
              /\ tSel'[p] = NodeStats[1]
              /\ SameEntries(NodeStats',
                     [NodeStats EXCEPT ![1].usage = tSel'[p].usage + BlockSize(p)])
              /\ IsSortedByUsage(NodeStats')]_vars

\* a selection of a non-empty block has moved the selected entry behind an
\* entry of smaller usage
C3_Witness ==
    \E p \in DOMAIN tPc :
        /\ tPc[p] = "transmit"
        /\ BlockSize(p) > 0
        /\ Len(NodeStats) >= 2
        /\ NodeStats[Len(NodeStats)].address = tSel[p].address
        /\ NodeStats[Len(NodeStats)].usage = tSel[p].usage + BlockSize(p)
        /\ NodeStats[1].usage < NodeStats[Len(NodeStats)].usage

\* C4 (failover): once a transfer attempt to a node has failed and
\* DeleteNode has been called with it, no later selection of the upload, by
\* the same or another block task, returns that node.
C4_Failover ==
    [][\A p \in DOMAIN tPc :
          SelectStep(p) => tSel'[p].address \notin evicted]_vars

\* The step in which block task p tests len(NodeStats) == 0
CheckStep(p) == tPc[p] = "check" /\ tPc'[p] # "check"

AllNodesFail == \A n \in Nodes : nodeMode[n] # "ok"

AllEvicted == \A i \in DOMAIN NodeStats : NodeStats[i].address \in evicted

\* C5 (exhaustion): when every node fails its transfers and every node of the
\* registry has been evicted after a failed transfer, a block task that
\* reaches the emptiness test ends with "no available nodes".
C5_Exhaustion ==
    [][\A p \in DOMAIN tPc :
          (CheckStep(p) /\ AllNodesFail /\ AllEvicted)
              => (tPc'[p] = "done" /\ tErr'[p] = "no available nodes")]_vars

\* The record and the fetched bytes of the block the download loop is at
\* disagree on the digest.
DigestMismatch ==
    LET name == DownloadBlockName(dlFile, dlI)
        key == FormatHex(GenerateFileHash(name))
    IN /\ dlPc = "loop" /\ dlI < dlN
       /\ key \in DOMAIN redis /\ redis[key].kind = "hash"
       /\ LET res == retrieveFile(redis[key].node_address, name \o <<".bin">>) IN
          /\ res.status = 200
          /\ FormatHex(GenerateBlockHash(res.body)) # redis[key].block_hash

\* C6 (integrity detection): a digest mismatch at any position ends the
\* download with the error "block hash mismatch", status 500 and no file bytes
\* in the response.
C6_Integrity ==
    [][(DigestMismatch /\ dlI' = dlI /\ dlPc' # dlPc)
          => (/\ dlPc' = "done"
              /\ dlErr' = "block hash mismatch"
              /\ dlResp'.status = 500
              /\ dlResp'.body = <<>>)]_vars

\* a mismatch found after at least one block had been verified and appended
C6_Witness ==
    /\ dlPc = "done" /\ dlErr = "block hash mismatch"
    /\ dlI >= 1 /\ dlBytes # <<>>
    /\ dlResp = [status |-> 500, body |-> <<>>]

\* The payload of the block the splitter gave position pos
PayloadAt(pos) == (CHOOSE b \in Range(upBlocks) : b.position = pos).bytes

\* C7 (ordering): the bytes a successful download has reassembled are the
\* block payloads of positions 1..blockCount in ascending position order,
\* whatever the order in which the block tasks ended.
C7_Ordering ==
    (dlPc = "done" /\ dlErr = "" /\ dlFile = upFile)
        => dlBytes = Concat([pos \in 1..Len(upBlocks) |-> PayloadAt(pos)])

\* block 2's task ended before block 1's, both blocks are non-empty
C7_Witness ==
    /\ dlPc = "done" /\ dlErr = "" /\ dlFile = upFile
    /\ Len(doneOrder) = 2 /\ doneOrder[1] = 2
    /\ \A pos \in 1..2 : PayloadAt(pos) # <<>>
    /\ PayloadAt(1) # PayloadAt(2)
    /\ dlBytes = PayloadAt(1) \o PayloadAt(2)

ScenarioUsages(reserved) ==
    { [address |-> "A", usage |-> 10],
      [address |-> "B", usage |-> 20],
      [address |-> "C", usage |-> 5 + reserved] }

\* C8 (scenario): from usages {A:10, B:20, C:5} a selection returns C and
\* leaves {A:10, B:20, C:5+blockSize}; when the transfer to C then fails,
\* DeleteNode removes C and the next selection returns A.
C8_Scenario ==
    [][\A p \in DOMAIN tPc :
          /\ (SelectStep(p) /\ Len(NodeStats) = 3
                  /\ Range(NodeStats) = ScenarioUsages(0))
                => (/\ tSel'[p].address = "C"
                    /\ Len(NodeStats') = 3
                    /\ Range(NodeStats') = ScenarioUsages(BlockSize(p)))
          /\ (tPc[p] = "delete" /\ tPc'[p] = "check" /\ tSel[p].address = "C"
                  /\ Len(NodeStats) = 3
                  /\ Range(NodeStats) = ScenarioUsages(BlockSize(p)))
                => (/\ \A i \in DOMAIN NodeStats' : NodeStats'[i].address # "C"
                    /\ SelectedNode(NodeStats').address = "A")]_vars

\* C9 (splitter partition): the positions of the returned blocks are 1..n in
\* list order, no block is longer than maxBlockSize, and the block payloads
\* concatenated in list order are the payload.
C9_SplitPartition ==
    splitOut # <<>> =>
        /\ \A k \in 1..Len(splitOut) : splitOut[k].position = k
        /\ \A k \in 1..Len(splitOut) : Len(splitOut[k].bytes) <= maxBlockSize
        /\ Concat([k \in 1..Len(splitOut) |-> splitOut[k].bytes]) = splitIn

\* a payload of both byte values split into a full block and a remainder
C9_Witness ==
    /\ Len(splitOut) = 2
    /\ Len(splitOut[1].bytes) = maxBlockSize
    /\ Len(splitOut[2].bytes) = 2
    /\ Range(splitIn) = Bytes
    /\ splitOut[1].bytes \o splitOut[2].bytes = splitIn

BlockSizes(bounds) == [k \in 1..Len(bounds) |-> bounds[k].hi - bounds[k].lo]

\* C10 (splitter block count): a payload of length L gives floor(L/S)+1
\* blocks, floor(L/S) of S bytes followed by one of L mod S bytes (zero-length
\* when L is a multiple of S); 300 MB with S = 128 MB gives 128, 128, 44 MB
\* at positions 1, 2, 3.
C10_SplitCount ==
    /\ splitOut # <<>> =>
          LET L == Len(splitIn)
              S == maxBlockSize
          IN /\ Len(splitOut) = (L \div S) + 1
             /\ \A k \in 1..(L \div S) : Len(splitOut[k].bytes) = S
             /\ Len(splitOut[(L \div S) + 1].bytes) = L % S
    /\ BlockSizes(SplitBounds(300 * MB, 128 * MB)) = <<128 * MB, 128 * MB, 44 * MB>>
    /\ [k \in 1..3 |-> SplitBounds(300 * MB, 128 * MB)[k].position] = <<1, 2, 3>>

\* a payload of exactly two block sizes: the third block is empty
C10_Witness ==
    /\ Len(splitIn) = 2 * maxBlockSize
    /\ Len(splitOut) = 3
    /\ splitOut[3] = [bytes |-> <<>>, position |-> 3]

----------------------------------------------------------------------------
(* Registry and upload contracts *)

\* The step of one /addNode request
AddNodeStep ==
    \/ regReq' # regReq
    \/ regResp' # regResp
    \/ Len(NodeAddresses') > Len(NodeAddresses)

\* The request carries a well-formed URL and GET /health on it answers 200
GateOpen(req) ==
    /\ req.json
    /\ ~ParseRequestURI(req.Url).err
    /\ ~healthProbe(req.Url).err
    /\ healthProbe(req.Url).StatusCode = 200

TaskSucceeded(p) == p \in DOMAIN tPc /\ tPc[p] = "done" /\ tErr[p] = ""

\* C12 (upload result): /sendFile answers 200 if and only if the task of
\* every block of the upload ended in success; when at least one block task
\* reported an error the answer is a 5xx status.
C12_UploadResult ==
    upPc = "responded" =>
        /\ (upResp = 200 <=> \A p \in DOMAIN upBlocks : TaskSucceeded(p))
        /\ ((\E p \in DOMAIN tErr : tErr[p] # "") => upResp \in 500..599)

\* one block task succeeded, the other reported an error
C12_Witness ==
    /\ upPc = "responded"
    /\ upResp = 500
    /\ \E p, q \in DOMAIN tPc : TaskSucceeded(p) /\ tErr[q] # ""

\* The step in which block task p runs TransmitBlock: the location record is
\* written and the block is posted to the selected node
TransmitStep(p) == tTries'[p] = tTries[p] + 1

\* C13 (capacity policy): TransmitBlock never runs for a node whose cached
\* usage at selection time exceeded 2 * maxNodeSize, after the first selection
\* of a block task and after every reselection.
C13_Capacity ==
    [][\A p \in DOMAIN tPc :
          TransmitStep(p) => tSel[p].usage <= 2 * maxNodeSize]_vars

\* C14 (registry order): after every step that changes NodeStats
\* (registration, usage refresh, selection with reservation, eviction)
\* NodeStats is sorted ascending by cached usage.
C14_RegistryOrder ==
    [][NodeStats' # NodeStats => IsSortedByUsage(NodeStats')]_vars

\* No address occurs twice in the sequence of addresses s
NoDuplicates(s) == \A i, j \in DOMAIN s : s[i] = s[j] => i = j

StatsAddresses(stats) == [i \in DOMAIN stats |-> stats[i].address]

\* C15 (no duplicate addresses): in every reachable state no address occurs
\* more than once in NodeAddresses and none occurs more than once in
\* NodeStats.
C15_NoDuplicates ==
    /\ NoDuplicates(NodeAddresses)
    /\ NoDuplicates(StatsAddresses(NodeStats))

\* The step in which block task p runs DeleteNode(selectedNode)
DeleteStep(p) == tPc[p] = "delete" /\ tPc'[p] = "check"

InStats(address) == \E i \in DOMAIN NodeStats : NodeStats[i].address = address

InAddresses(address) == \E i \in DOMAIN NodeAddresses : NodeAddresses[i] = address

\* C16 (evict postcondition): DeleteNode(n) on a registry that holds n leaves
\* no entry of n's address in NodeStats or NodeAddresses, makes both lists one
\* entry shorter, and keeps every other entry as it was.
C16_EvictPost ==
    [][\A p \in DOMAIN tPc :
          LET n == tSel[p].address IN
          (DeleteStep(p) /\ InStats(n) /\ InAddresses(n)) =>
              /\ \A i \in DOMAIN NodeStats' : NodeStats'[i].address # n
              /\ \A i \in DOMAIN NodeAddresses' : NodeAddresses'[i] # n
              /\ Len(NodeStats') = Len(NodeStats) - 1
              /\ Len(NodeAddresses') = Len(NodeAddresses) - 1
              /\ \A e \in Range(NodeStats) :
                     e.address # n => Count(NodeStats', e) = Count(NodeStats, e)
              /\ \A a \in Range(NodeAddresses) :
                     a # n => Count(NodeAddresses', a) = Count(NodeAddresses, a)]_vars

\* C17 (evict idempotence): DeleteNode(n) with n in neither list leaves
\* NodeStats and NodeAddresses unchanged and reports no error; a second
\* DeleteNode(n) right after any DeleteNode(n) changes nothing.
C17_EvictIdempotent ==
    [][\A p \in DOMAIN tPc :
          LET n == tSel[p].address IN
          DeleteStep(p) =>
              /\ (~InStats(n) /\ ~InAddresses(n)) =>
                     /\ NodeStats' = NodeStats
                     /\ NodeAddresses' = NodeAddresses
                     /\ tErr' = tErr
                     /\ errChan' = errChan
              /\ DeleteNodeStats(NodeStats', n) = NodeStats'
              /\ DeleteNodeAddresses(NodeAddresses', n) = NodeAddresses']_vars

\* two block tasks have both called DeleteNode with the same node, and the
\* registry holds that node no more: the later call found it absent
C17_Witness ==
    \E p, q \in DOMAIN tPc :
        /\ p # q
        /\ tPc[p] = "check" /\ tPc[q] = "check"
        /\ tSel[p].address = tSel[q].address
        /\ ~InStats(tSel[p].address)
        /\ ~InAddresses(tSel[p].address)

\* A registered address whose node answers the usage poll with its size
Responds(u) ==
    /\ ~getCurrentNodeSpace(u).err
    /\ ~getCurrentNodeSpace(u).decodeErr

RespondingStats ==
    { [address |-> NodeAddresses[i], usage |-> getCurrentNodeSpace(NodeAddresses[i]).Size] :
          i \in {j \in DOMAIN NodeAddresses : Responds(NodeAddresses[j])} }

\* C18 (usage refresh availability): RetrieveNodeStats, as /nodesUsage shows
\* it, fails if and only if no registered node answers the usage poll; when
\* at least one answers it returns the answering nodes sorted ascending by
\* usage.
C18_RefreshAvailability ==
    [][usageResp' # usageResp =>
          /\ (usageResp'.status = 500 <=>
                 \A i \in DOMAIN NodeAddresses : ~Responds(NodeAddresses[i]))
          /\ (\E i \in DOMAIN NodeAddresses : Responds(NodeAddresses[i])) =>
                 /\ usageResp'.status = 200
                 /\ Range(usageResp'.nodes) = RespondingStats
                 /\ IsSortedByUsage(usageResp'.nodes)]_vars

\* The download is about to end for want of metadata: the name has no
\* manifest, or the position the loop is at has no location record.
NotFoundCase ==
    /\ dlPc = "loop"
    /\ \/ ManifestKey(dlFile) \notin DOMAIN redis
       \/ /\ dlI < dlN
          /\ FormatHex(GenerateFileHash(DownloadBlockName(dlFile, dlI)))
                 \notin DOMAIN redis

\* C19 (not found): a download of a name without manifest, or whose manifest
\* names a position without location record, ends with a 404-class status, an
\* error other than the unavailability and integrity errors, and no bytes.
C19_NotFound ==
    [][(NotFoundCase /\ dlPc' = "done") =>
          /\ dlResp'.status \in 400..499
          /\ dlResp'.body = <<>>
          /\ dlErr' \notin {"", "failed to retrieve block from node",
                           "block hash mismatch"}]_vars

\* The number of nodes the registry held when the upload began: the refresh
\* of the upload set NodeStats, and no step of an upload changes its length.
NodesAtStart == Len(NodeStats)

\* C20 (upload termination): no block task makes more transfer attempts than
\* the registry held nodes when the upload began; by then it has ended in
\* success or in a terminal error.
C20_Termination ==
    \A p \in DOMAIN tTries : tTries[p] <= NodesAtStart

----------------------------------------------------------------------------
(* Locking and ordering contracts *)

\* The step in which the upload handler polls the addresses of
\* NodeAddresses and assigns the result to NodeStats
RefreshStep == upPc = "refresh" /\ upPc' # "refresh"

\* C21 (registry accesses are locked): while a request holds the registry
\* mutex no other request or task reads or writes NodeStats or
\* NodeAddresses: neither the upload's usage refresh, which reads
\* NodeAddresses and replaces NodeStats, nor a block task's emptiness check.
C21_RegistryLocked ==
    [][(mutex # "free" /\ mutex' = mutex) =>
          /\ ~RefreshStep
          /\ \A p \in DOMAIN tPc : ~CheckStep(p)]_vars

\* C22 (lock scope): the registry mutex is not held while a usage poll or a
\* metadata-store call of its holder is under way, and no block task waits
\* for the mutex meanwhile.
C22_LockScope ==
    mutex # "free" =>
        /\ regPc \notin {"poll", "push"}
        /\ \A p \in DOMAIN tPc : tPc[p] \notin {"select", "reselect", "delete"}

\* The location record TransmitBlock writes for block task p
RecordOf(p) ==
    [kind |-> "hash",
     node_address |-> tSel[p].address,
     block_hash |-> FormatHex(GenerateBlockHash(upBlocks[p].bytes))]

HasRecord(p) ==
    /\ BlockKey(upFile, upBlocks[p].position) \in DOMAIN redis
    /\ redis[BlockKey(upFile, upBlocks[p].position)] = RecordOf(p)

\* C23 (metadata before transfer): when a block is posted to a node the
\* location record under the block's key holds that node's address and the
\* block's digest; a TransmitBlock call whose record write fails posts nothing.
C23_RecordBeforeTransfer ==
    [][\A p \in DOMAIN tPc :
          /\ (tPc[p] = "post" /\ tPc'[p] # "post") => HasRecord(p)
          /\ (TransmitStep(p) /\ ~HasRecord(p)')
                => (tPc'[p] = "delete" /\ nodeFiles' = nodeFiles)]_vars

\* the record of a block is written, the block is not yet on the node
C23_Witness ==
    \E p \in DOMAIN tPc :
        /\ tPc[p] = "post"
        /\ HasRecord(p)
        /\ BlockFileName(upFile, upBlocks[p].position)
               \notin DOMAIN nodeFiles[tSel[p].address]

ManifestWritten ==
    /\ ManifestKey(upFile) \in DOMAIN redis
    /\ redis[ManifestKey(upFile)] = [kind |-> "string", val |-> Len(upBlocks)]

\* C24 (manifest before distribution): whenever block tasks exist, a location
\* record is written or a block is stored, the manifest of the upload holds
\* the number of blocks the splitter produced; an upload whose manifest write
\* failed is answered without any block task.
C24_ManifestFirst ==
    /\ (tPc # <<>> \/ (\E n \in Nodes : nodeFiles[n] # <<>>)
            \/ (\E p \in DOMAIN upBlocks :
                    BlockKey(upFile, upBlocks[p].position) \in DOMAIN redis))
          => ManifestWritten
    /\ (upPc # "idle" /\ ~ManifestWritten) => (upPc = "responded" /\ tPc = <<>>)

\* the manifest of a two-block upload is written, no task has selected yet
C24_Witness ==
    /\ upPc = "tasks"
    /\ Len(upBlocks) = 2
    /\ ManifestWritten
    /\ \A p \in DOMAIN tPc : tPc[p] = "select"

\* C25 (final record after failover): once a block task has succeeded, the
\* record under the block's key holds the address of the node that
\* acknowledged the block and the block's digest, whatever earlier attempts
\* wrote there.
C25_FinalRecord ==
    \A p \in DOMAIN tPc : TaskSucceeded(p) => HasRecord(p)

\* a task succeeded on its second node, after the first one was evicted
C25_Witness ==
    \E p \in DOMAIN tPc :
        /\ TaskSucceeded(p)
        /\ tTries[p] = 2
        /\ evicted # {}
        /\ tSel[p].address \notin evicted
        /\ HasRecord(p)

\* C26 (coordinator waits): the upload is answered only when every block
\* task it started has finished.
C26_CoordinatorWaits ==
    upPc = "responded" => \A p \in DOMAIN tPc : tPc[p] = "done"

\* a two-block upload is answered; one of its tasks needed a second attempt
C26_Witness ==
    /\ upPc = "responded"
    /\ Len(tPc) = 2
    /\ \E p \in DOMAIN tPc : tTries[p] = 2

\* C27 (capacity error is terminal): a task whose selection returns a node
\* with usage over 2*maxNodeSize ends in that step with the error
\* "all nodes are full", at the first selection and at every reselection.
C27_CapacityTerminal ==
    [][\A p \in DOMAIN tPc :
          (SelectStep(p) /\ tSel'[p].usage > 2 * maxNodeSize)
              => (tPc'[p] = "done" /\ tErr'[p] = "all nodes are full")]_vars

\* The block of task p is on the disk of the node that acknowledged it
IsStored(p) ==
    /\ BlockFileName(upFile, upBlocks[p].position)
           \in DOMAIN nodeFiles[tSel[p].address]
    /\ nodeFiles[tSel[p].address][BlockFileName(upFile, upBlocks[p].position)]
           = upBlocks[p].bytes

\* C29 (no rollback): after an upload was refused its manifest still holds
\* the block count, and every sibling task that succeeded still has its
\* location record and, unless the disk was altered since, its stored block.
C29_NoRollback ==
    (upPc = "responded" /\ upResp = 500 /\ tPc # <<>>) =>
        /\ ManifestWritten
        /\ \A p \in DOMAIN tPc :
              TaskSucceeded(p) => (HasRecord(p) /\ (corrupted \/ IsStored(p)))

\* a refused two-block upload: one block stored and recorded, the other not,
\* the manifest counting two
C29_Witness ==
    /\ upPc = "responded"
    /\ upResp = 500
    /\ ManifestWritten
    /\ Len(upBlocks) = 2
    /\ \E p, q \in DOMAIN tPc :
          /\ TaskSucceeded(p) /\ HasRecord(p) /\ IsStored(p)
          /\ tErr[q] # ""
          /\ \A n \in Nodes :
                BlockFileName(upFile, upBlocks[q].position) \notin DOMAIN nodeFiles[n]

\* The addresses a /nodesUsage answer lists
UsageAddresses(resp) == { resp.nodes[i].address : i \in DOMAIN resp.nodes }

\* C28 (a poll failure is not an eviction): a usage poll changes neither
\* NodeAddresses nor NodeStats; no request removes or moves an address a poll
\* got no answer from, and a successful poll lists exactly the registered
\* addresses that accept the connection at that moment, among them the ones
\* an earlier poll had failed on.
C28_PollKeepsRegistry ==
    [][/\ usageResp' # usageResp =>
             /\ NodeAddresses' = NodeAddresses
             /\ NodeStats' = NodeStats
             /\ usageResp'.status = 200 =>
                    UsageAddresses(usageResp') =
                        { NodeAddresses[i] : i \in { j \in DOMAIN NodeAddresses :
                              ~getCurrentNodeSpace(NodeAddresses[j]).err } }
       /\ \A i \in DOMAIN NodeAddresses :
             i \in DOMAIN NodeAddresses' /\ NodeAddresses'[i] = NodeAddresses[i]]_vars

\* three nodes are registered, the first has stopped, and a poll made after
\* the third registration lists the other two: the first is still registered
C28_Witness ==
    /\ Len(NodeAddresses) = 3
    /\ NoDuplicates(NodeAddresses)
    /\ getCurrentNodeSpace(NodeAddresses[1]).err
    /\ usageResp.status = 200
    /\ UsageAddresses(usageResp) = {NodeAddresses[2], NodeAddresses[3]}
    /\ InStats(NodeAddresses[1])

\* Position of an address in the order of registration
RegisteredAt(address) ==
    CHOOSE i \in DOMAIN NodeAddresses : NodeAddresses[i] = address

\* C30 (stable tie-break): a selection returns, among the entries with the
\* minimum cached usage, the node that registered first, and afterwards
\* entries of equal usage stand in the order of their registration.
C30_StableTieBreak ==
    [][Len(tSel') = Len(tSel) + 1 =>
          /\ \A i \in DOMAIN NodeStats :
                NodeStats[i].usage = MinUsage(NodeStats) =>
                    RegisteredAt(tSel'[Len(tSel')].address)
                        <= RegisteredAt(NodeStats[i].address)
          /\ \A i, j \in DOMAIN NodeStats' :
                (i < j /\ NodeStats'[i].usage = NodeStats'[j].usage) =>
                    RegisteredAt(NodeStats'[i].address)
                        < RegisteredAt(NodeStats'[j].address)]_vars

----------------------------------------------------------------------------
(* Download order, eviction causes, capacity and the error channel *)

\* C31 (download is sequential and aborts at the first failure): the loop
\* index advances by one per fetched block, appending that block's bytes; the
\* step in which a lookup, fetch or digest check fails ends the download
\* with the index and the bytes as they were, and nothing is fetched after.
C31_SequentialAbort ==
    [][/\ (dlPc = "loop" /\ dlI' # dlI) =>
             /\ dlI' = dlI + 1
             /\ dlErr' = ""
             /\ \E n \in Nodes :
                   /\ DownloadBlockName(dlFile, dlI) \o <<".bin">> \in DOMAIN nodeFiles[n]
                   /\ dlBytes' = dlBytes \o
                          nodeFiles[n][DownloadBlockName(dlFile, dlI) \o <<".bin">>]
       /\ dlErr' # dlErr => (dlPc' = "done" /\ dlI' = dlI /\ dlBytes' = dlBytes)
       /\ dlPc = "done" => UNCHANGED <<dlI, dlBytes, dlErr, dlResp, dlPc>>]_vars

\* the first of two positions failed: the second was never fetched
C31_Witness ==
    /\ dlPc = "done"
    /\ dlErr # ""
    /\ dlN = 2
    /\ dlI = 0
    /\ dlBytes = <<>>

\* C33 (eviction only on transfer failure): DeleteNode is called with a node
\* only after a transfer to that node failed; a failed write of the location
\* record evicts no node.
C33_EvictOnTransferFailure ==
    [][\A p \in DOMAIN tPc :
          DeleteStep(p) => ~receiveFileOk(tSel[p].address)]_vars

\* C35 (bounded reservation): a selection the capacity check rejects leaves
\* the cached usages as they were, and an accepted one raises the node's
\* cached usage to at most 2 * maxNodeSize + maxBlockSize.
C35_BoundedReservation ==
    [][\A p \in DOMAIN tPc :
          SelectStep(p) =>
              IF tErr'[p] = "all nodes are full"
              THEN NodeStats' = NodeStats
              ELSE tSel'[p].usage + BlockSize(p)
                       <= 2 * maxNodeSize + maxBlockSize]_vars

\* C38 (one outcome per task): the error channel holds one error per task
\* that reported one, never more than the block count, and a task that has
\* sent its error has ended.
C38_OneOutcome ==
    /\ Len(errChan) <= Len(upBlocks)
    /\ Len(errChan) = Cardinality({p \in DOMAIN tErr : tErr[p] # ""})
    /\ \A p \in DOMAIN tPc : tErr[p] # "" => tPc[p] = "done"

\* both tasks of a two-block upload sent an error: the channel is full
C38_Witness ==
    /\ upPc = "responded"
    /\ Len(upBlocks) = 2
    /\ Len(errChan) = 2
    /\ \A p \in DOMAIN tPc : tErr[p] # "" /\ tPc[p] = "done"

\* C34 ("all nodes are full" is true when reported): when a block task ends
\* with the capacity error, no entry of NodeStats has a cached usage of
\* 2 * maxNodeSize or less.
C34_FullIsTrue ==
    [][\A p \in DOMAIN tPc :
          (tErr[p] = "" /\ tErr'[p] = "all nodes are full") =>
              \A i \in DOMAIN NodeStats :
                  NodeStats[i].usage > 2 * maxNodeSize]_vars

----------------------------------------------------------------------------
(* Metadata across uploads *)

\* The nodes the location records of a file name
Holders(F) ==
    { redis[BlockKey(F, i)].node_address :
          i \in { j \in 1..Len(Digits) : /\ BlockKey(F, j) \in DOMAIN redis
                                         /\ redis[BlockKey(F, j)].kind = "hash" } }

\* C32 (eviction leaves metadata alone): DeleteNode changes no Redis key and
\* no stored block, and a finished download of a file whose upload was
\* answered 200 returns that upload's payload whatever the registry holds,
\* when the only later upload had a name with other keys and the nodes still
\* serve their blocks.
C32_EvictionKeepsMetadata ==
    [][/\ \A p \in DOMAIN tPc :
             DeleteStep(p) => (redis' = redis /\ nodeFiles' = nodeFiles)
       /\ (dlPc' = "done" /\ dlFile' \in DOMAIN uploaded' /\ Unrelated(upFile', dlFile'))
             => dlResp' = [status |-> 200, body |-> uploaded'[dlFile']]]_vars

\* a file is downloaded after every node that holds a block of it was
\* evicted from both lists of the registry
C32_Witness ==
    /\ dlPc = "done"
    /\ dlResp.status = 200
    /\ dlFile \in DOMAIN uploaded
    /\ Holders(dlFile) # {}
    /\ \A n \in Holders(dlFile) :
          n \in evicted /\ ~InStats(n) /\ ~InAddresses(n)

\* The manifest or a location record of file name G stands under key k
IsDataOf(G, k) ==
    /\ k \in DOMAIN redis
    /\ \/ k = ManifestKey(G) /\ redis[k].kind = "string"
       \/ \E i \in 1..Len(Digits) : k = BlockKey(G, i) /\ redis[k].kind = "hash"

\* C37 (key isolation between files): no step of the upload of one file name
\* changes or removes the manifest or a location record of another file
\* name.
C37_KeyIsolation ==
    [][\A G \in ClashNames : \A k \in DOMAIN redis :
          (G # upFile' /\ IsDataOf(G, k))
              => (k \in DOMAIN redis' /\ redis'[k] = redis[k])]_vars

----------------------------------------------------------------------------
(* Two uploads of one file name at the same time *)

BothAccepted ==
    /\ upPc = "responded" /\ upResp = 200
    /\ up2Pc = "responded" /\ up2Resp = 200

\* The location record of a position agrees with the bytes stored under the
\* block's name on the node the record names.
RecordMatchesBytes(i) ==
    LET k == BlockKey(upFile, i)
        name == BlockFileName(upFile, i)
    IN (k \in DOMAIN redis /\ redis[k].kind = "hash")
           => /\ redis[k].node_address \in Nodes
              /\ name \in DOMAIN nodeFiles[redis[k].node_address]
              /\ redis[k].block_hash =
                     FormatHex(GenerateBlockHash(
                         nodeFiles[redis[k].node_address][name]))

\* C36 (concurrent uploads of one name): when two uploads of the same file
\* name with different contents were handled at the same time and both were
\* answered with success, then for every block position the digest in the
\* location record equals the digest of the bytes stored under that block's
\* name on the node the record names.
C36_RecordMatchesStoredBytes ==
    BothAccepted => \A i \in 1..Len(Digits) : RecordMatchesBytes(i)

\* C39 (selection never sees an empty registry): whenever a block task is
\* about to call SelectAndUpdateNode, whatever block tasks, evictions and
\* concurrent uploads came before, NodeStats holds at least one entry; and an
\* upload whose refresh found no answering node has started no task, written
\* no location record and stored no block.
C39_SelectionSeesNodes ==
    /\ (\E p \in DOMAIN tPc : tPc[p] \in {"select", "reselect"})
           => NodeStats # <<>>
    /\ (upPc = "responded" /\ tPc = <<>>)
           => /\ upResp = 500
              /\ \A n \in Nodes : DOMAIN nodeFiles[n] = {}
              /\ \A i \in 1..Len(Digits) : BlockKey(upFile, i) \notin DOMAIN redis

\* A task of the second upload waits for its selection after a node was
\* evicted by a task of the first.
C39_Witness ==
    /\ evicted # {}
    /\ up2Pc = "tasks"
    /\ \E p \in Own2 : tPc[p] \in {"select", "reselect"}
    /\ \E p \in Own1 : tPc[p] = "reselect"
    /\ NodeStats # <<>>

\* C40 (reservations are not lost): from the selection that reserved a block's
\* size on a node until the block's task ends, as long as the node is in
\* NodeStats, the node's cached usage is at least the usage found at the
\* selection plus the block's size, whatever the other tasks of this upload
\* and of concurrent uploads do.
C40_ReservationKept ==
    \A p \in DOMAIN tPc :
        tPc[p] \in {"transmit", "post"}
            => ((\E i \in DOMAIN NodeStats :
                     NodeStats[i].address = tSel[p].address)
                  => \E i \in DOMAIN NodeStats :
                         /\ NodeStats[i].address = tSel[p].address
                         /\ NodeStats[i].usage >= tSel[p].usage + BlockSize(p))

====
